---- MODULE Spec2Model ----
(***************************************************************************)
(* Model of package ihandler (src/ihandler/handler.go): one                *)
(* interceptResponseWriter value ("the pipeline object") serving requests  *)
(* through HandleFunc.  The fields of the struct are shared by every       *)
(* request served by the object; the locals of HandleFunc (w, the three    *)
(* range loops) belong to the goroutine serving one request.               *)
(*                                                                         *)
(* A goroutine is a task t.  The http.ResponseWriter handed to the         *)
(* HandleFunc call that task t is serving is sink[t]; a new call gets a    *)
(* new writer, so sink[t] is reset when t begins a request.                *)
(*                                                                         *)
(* The user callbacks (authorizers, the handler, monitors) are arbitrary   *)
(* code: while one runs it may call any method of the interface, one call  *)
(* per step, and an authorizer may return any outcome.  Callbacks return;  *)
(* a sink write returns, with or without an error.                         *)
(*                                                                         *)
(* Registration (WithPre, WithPost) is modelled while no request is in     *)
(* flight: it is meant for set-up time.                                    *)
(*                                                                         *)
(* Spec lets the tasks serve requests at the same time, SeqSpec one after  *)
(* another.  The struct has no lock: Write reads and stores the captured   *)
(* slice in two steps, between which another task may run.                 *)
(***************************************************************************)
EXTENDS Integers, Sequences, FiniteSets, TLC

\* ------------------------------------------------------------------ bounds
NumTasks == 2          \* goroutines that may serve requests
MaxRequests == 2       \* HandleFunc calls in one behaviour
MaxCalls == 2          \* interface calls made by callbacks, requests one at a time
MaxRaceCalls == 2      \* interface calls made by callbacks, requests at once
MaxChain == 2          \* length of each chain
MaxWrites == 2         \* Write calls made by callbacks that only write

Tasks == 1..NumTasks
Nil == "nil"
Self == "i"                          \* the interceptResponseWriter value
UserHandlers == {"h"}                \* the userHandler argument of New
NewAuthorizers == {Nil, "a1"}        \* the authorizer argument of New
PreArgs == {Nil, "a2"}               \* arguments of WithPre
NewMonitors == {Nil, "m1"}           \* the userRespMonitor argument of New
PostArgs == {Nil, "m2"}              \* arguments of WithPost
\* The k-th interface call of a behaviour, if it is a Write, passes a chunk of
\* its own, so that every byte at a sink tells which call wrote it.
ChunkArgs == <<<<"a">>, <<"b", "c">>, <<"d">>, <<"e", "f">>, <<"g">>>>
ChunkArg(k) == ChunkArgs[((k - 1) % Len(ChunkArgs)) + 1]
\* The arguments of Write when callbacks choose them freely: nil or empty, or
\* some bytes.
WriteArgs == {<<>>, <<"b", "c">>}
Chunks == {ChunkArgs[k] : k \in DOMAIN ChunkArgs} \cup WriteArgs
Errs == {"e"}                        \* non-nil error values
Msgs == {<<>>, <<"n", "o">>}         \* the string an authorizer returns
DenyCodes == {401}                   \* the status code an authorizer returns
HandlerCodes == {201}                \* arguments of WriteHeader
HeaderNames == {"ETag"}
\* The names AddHeader is called with: also one that http.Error sets itself.
AddHeaderNames == HeaderNames \cup {"Content-Type"}
HeaderValues == {"a1"}
CookieNames == {"S"}
NL == "\n"

\* ------------------------------------------------------------ pure helpers
RECURSIVE Flatten(_)
\* The bytes of a sequence of chunks, concatenated in order.
Flatten(cs) == IF cs = <<>> THEN <<>> ELSE Head(cs) \o Flatten(Tail(cs))

RECURSIVE SelectBy(_, _)
\* The chunks of a write log that were written by the callbacks of one stage.
SelectBy(log, stage) ==
    IF log = <<>> THEN <<>>
    ELSE IF Head(log).by = stage
         THEN <<Head(log).b>> \o SelectBy(Tail(log), stage)
         ELSE SelectBy(Tail(log), stage)

RECURSIVE IdsOf(_, _)
\* The callbacks of one kind entered during a request, in order of entry.
IdsOf(evs, kind) ==
    IF evs = <<>> THEN <<>>
    ELSE IF Head(evs).k = kind
         THEN <<Head(evs).id>> \o IdsOf(Tail(evs), kind)
         ELSE IdsOf(Tail(evs), kind)

\* err.Error()
ErrorText(e) == <<"e", "r", "r">>

\* ------------------------------------------------- the real sink (net/http)
\* An http.ResponseWriter: its header map (name/value pairs in order of
\* addition, a value being a sequence of pieces of text), the status line
\* (0: not yet written), the headers sent with the status line (<<>>: none
\* yet, else <<the header map as it was then>>) and the body bytes.
NewSink == [hdr |-> <<>>, status |-> 0, sent |-> <<>>, body |-> <<>>]

\* (as SinkAdd, the values the name had replaced)
SinkReplace(s, name, value) ==
    [s EXCEPT !.hdr = Append(SelectSeq(@, LAMBDA p : p[1] # name), <<name, value>>)]

\* Header().Add(name, value)
SinkAdd(s, name, value) == [s EXCEPT !.hdr = Append(@, <<name, value>>)]

\* Header().Set(name, value): replaces the values of the name
SinkSet(s, name, value) ==
    [s EXCEPT !.hdr = Append(SelectSeq(@, LAMBDA p : p[1] # name), <<name, value>>)]

\* ResponseWriter.WriteHeader(code): only the first call writes the status
\* line, and with it the headers as they are; later changes of the header map
\* are not sent.
SinkWriteHeader(s, code) ==
    IF s.status = 0 THEN [s EXCEPT !.status = code, !.sent = <<s.hdr>>] ELSE s

\* ResponseWriter.Write(bytes): an implicit WriteHeader(200), then the bytes
SinkWrite(s, bytes) == [SinkWriteHeader(s, 200) EXCEPT !.body = @ \o bytes]

\* The header names http.Error sets itself.
ErrorHeaderNames == {"Content-Type", "X-Content-Type-Options"}

\* (as HttpError, on a header map emptied first)
HttpErrorCleared(s, msg, code) ==
    SinkWrite(
        SinkWriteHeader(
            SinkSet(SinkSet([s EXCEPT !.hdr = <<>>],
                            "Content-Type", <<"text/plain; charset=utf-8">>),
                    "X-Content-Type-Options", <<"nosniff">>),
            code),
        msg \o <<NL>>)

\* http.Error(w, msg, code): plain-text headers, the status, msg and a newline
HttpError(s, msg, code) ==
    SinkWrite(
        SinkWriteHeader(
            SinkSet(SinkSet(s, "Content-Type", <<"text/plain; charset=utf-8">>),
                    "X-Content-Type-Options", <<"nosniff">>),
            code),
        msg \o <<NL>>)

\* What the client gets when the call has returned: without a status line
\* written, the server sends 200 and the headers as they are then.
ResponseStatus(s) == IF s.status = 0 THEN 200 ELSE s.status
ResponseHeaders(s) == IF s.sent = <<>> THEN s.hdr ELSE s.sent[1]

\* cookie.String() for a cookie with a valid name
CookieString(name, value) == <<name, "=", value>>

\* ------------------------------------------------------------------- state
VARIABLES
    \* fields of the interceptResponseWriter struct, shared by all requests
    rw,            \* i.rw: the sink the pass-through methods act on (a task's sink; 0: nil)
    userHandler,   \* i.userHandler
    authorizers,   \* i.authorizers
    respMonitors,  \* i.respMonitors
    respBytes,     \* *i.respBytes: the captured chunks
    \* the real sinks, one per HandleFunc call in progress
    sink,
    \* locals of the HandleFunc call of each task
    pc,            \* idle | auth | handler | monitor | flush | denied | done
    afs, ai,       \* range i.authorizers: the slice ranged over, the position
    rmfs, mi,      \* range i.respMonitors
    chunks, ci,    \* range *i.respBytes
    pend,          \* a Write in progress: <<the slice it read and its argument>>
    ret,           \* what the last Write of the request's callbacks returned, if it has
    \* the logger
    logged,        \* per request: "" | "authorizer failed" | "write failed"
    \* history of each request, kept to state the properties
    events,        \* callbacks entered and sink writes made, in order
    wlog,          \* Write calls made by the callbacks of the request, in order
    mlog,          \* pass-through calls made by the callbacks of the request, in order
    seen,          \* what each monitor entered found behind its respBytes argument
    ptSinks,       \* the sinks the request's pass-through calls acted on
    deny,          \* the denial that ended the request, or NoDenial
    flushErr,      \* position of the chunk whose sink write failed, or 0
    startBytes,    \* the captured chunks when the request began
    overlapped,    \* another request was in flight at some point of this request
    \* history of the pipeline object
    preReg,        \* non-nil authorizers in the order they were registered
    postReg,       \* non-nil monitors in the order they were registered
    reg,           \* the registration call made since the last request began, if
                   \* any: <<its name, its argument, what it returned>>
    nReq,          \* HandleFunc calls begun
    nCalls         \* interface calls made by callbacks

fields == <<rw, userHandler, authorizers, respMonitors, respBytes>>
locals == <<pc, afs, ai, rmfs, mi, chunks, ci, pend, ret>>
history == <<events, wlog, mlog, seen, ptSinks, deny, flushErr, startBytes, overlapped>>
registry == <<preReg, postReg, reg>>
counters == <<nReq, nCalls>>
vars == <<fields, sink, locals, logged, history, registry, counters>>

\* deny[t] while the request of task t has not been denied
NoDenial == [err |-> Nil, code |-> 0, msg |-> <<>>, at |-> 0, status |-> 0]

InFlight(t) == pc[t] \in {"auth", "handler", "monitor", "flush"}
Running(t) == pc[t] \in {"auth", "handler", "monitor"}
Quiescent == \A t \in Tasks : ~InFlight(t)

\* A call has ended (denied, or done) and not yet returned.  It returns before
\* anything else happens: the actions other than Return wait for it.
Ended == \E t \in Tasks : pc[t] \in {"denied", "done"}

\* ------------------------------------------------------------------- New
\* New(userHandler, authorizer, userRespMonitor, logger): a nil authorizer or
\* monitor is not put in its chain; the captured chunks start empty.
\* (as NewChain, a nil argument put in the chain)
NewChainAny(f) == <<f>>

NewChain(f) == IF f # Nil THEN <<f>> ELSE <<>>

Init ==
    /\ \E authorizer \in NewAuthorizers, userRespMonitor \in NewMonitors :
          /\ authorizers = NewChain(authorizer)
          /\ respMonitors = NewChain(userRespMonitor)
          /\ preReg = IF authorizer = Nil THEN <<>> ELSE <<authorizer>>
          /\ postReg = IF userRespMonitor = Nil THEN <<>> ELSE <<userRespMonitor>>
    /\ rw = 0
    /\ userHandler \in UserHandlers
    /\ respBytes = <<>>
    /\ reg = <<>>
    /\ sink = [t \in Tasks |-> NewSink]
    /\ pc = [t \in Tasks |-> "idle"]
    /\ afs = [t \in Tasks |-> <<>>]
    /\ ai = [t \in Tasks |-> 0]
    /\ rmfs = [t \in Tasks |-> <<>>]
    /\ mi = [t \in Tasks |-> 0]
    /\ chunks = [t \in Tasks |-> <<>>]
    /\ ci = [t \in Tasks |-> 0]
    /\ pend = [t \in Tasks |-> <<>>]
    /\ ret = [t \in Tasks |-> <<>>]
    /\ logged = [t \in Tasks |-> ""]
    /\ events = [t \in Tasks |-> <<>>]
    /\ wlog = [t \in Tasks |-> <<>>]
    /\ mlog = [t \in Tasks |-> <<>>]
    /\ seen = [t \in Tasks |-> <<>>]
    /\ ptSinks = [t \in Tasks |-> {}]
    /\ deny = [t \in Tasks |-> NoDenial]
    /\ flushErr = [t \in Tasks |-> 0]
    /\ startBytes = [t \in Tasks |-> <<>>]
    /\ overlapped = [t \in Tasks |-> FALSE]
    /\ nReq = 0
    /\ nCalls = 0

\* ------------------------------------------------------- WithPre, WithPost
\* (as Register, the new element put first)
RegisterFirst(chain, f) == IF f = Nil THEN chain ELSE <<f>> \o chain

\* (as Register, the chain begun anew)
RegisterAlone(chain, f) == IF f = Nil THEN chain ELSE <<f>>

\* (as Register, without the nil check)
RegisterAny(chain, f) == Append(chain, f)

\* append(i.authorizers, af) / append(i.respMonitors, pr)
Register(chain, f) == IF f = Nil THEN chain ELSE Append(chain, f)

WithPre(af) ==
    /\ ~Ended
    /\ Quiescent
    /\ Len(authorizers) < MaxChain
    /\ authorizers' = Register(authorizers, af)
    /\ preReg' = IF af = Nil THEN preReg ELSE Append(preReg, af)
    /\ reg' = <<[op |-> "WithPre", arg |-> af, res |-> Self]>>
    /\ UNCHANGED <<rw, userHandler, respMonitors, respBytes, sink, locals, logged,
                   history, postReg, counters>>

WithPost(pr) ==
    /\ ~Ended
    /\ Quiescent
    /\ Len(respMonitors) < MaxChain
    /\ respMonitors' = Register(respMonitors, pr)
    /\ postReg' = IF pr = Nil THEN postReg ELSE Append(postReg, pr)
    /\ reg' = <<[op |-> "WithPost", arg |-> pr, res |-> Self]>>
    /\ UNCHANGED <<rw, userHandler, authorizers, respBytes, sink, locals, logged,
                   history, preReg, counters>>

\* A callback of task t is running, is not inside a call, and may make one
\* more of the budget calls the behaviour is bounded to.
MayCall(t, budget) ==
    ~Ended /\ Running(t) /\ pend[t] = <<>> /\ nCalls < budget

\* append((*i.respBytes), b)
BufferAppend(buf, b) == Append(buf, b)

\* Write, first half: the captured slice is read.  The field is shared and
\* not locked, so another goroutine may store between the read and the store.
WriteRead(t, b, budget) ==
    /\ MayCall(t, budget)
    /\ pend' = [pend EXCEPT ![t] = <<[old |-> respBytes, b |-> b]>>]
    /\ ret' = [ret EXCEPT ![t] = <<>>]
    /\ wlog' = [wlog EXCEPT ![t] = Append(@, [by |-> pc[t], b |-> b])]
    /\ nCalls' = nCalls + 1
    /\ UNCHANGED <<fields, sink, pc, afs, ai, rmfs, mi, chunks, ci, logged,
                   events, mlog, seen, ptSinks, deny, flushErr, startBytes, overlapped,
                   registry, nReq>>

\* (as SinkAfterWrite, the bytes passed on at once)
WriteImmediately(s, b) == SinkWrite(s, b)

\* What Write(b) does to the sink i.rw: nothing, the bytes are only captured.
SinkAfterWrite(s, b) == s

\* return len(b), nil
WriteResult(b) == [n |-> Len(b), err |-> Nil]

\* Write, second half: the slice with b appended is stored; (len(b), nil).
WriteStore(t) ==
    /\ ~Ended
    /\ Running(t)
    /\ pend[t] # <<>>
    /\ respBytes' = BufferAppend(pend[t][1].old, pend[t][1].b)
    /\ sink' = [sink EXCEPT ![rw] = SinkAfterWrite(@, pend[t][1].b)]
    /\ pend' = [pend EXCEPT ![t] = <<>>]
    /\ ret' = [ret EXCEPT ![t] = <<WriteResult(pend[t][1].b)>>]
    /\ UNCHANGED <<rw, userHandler, authorizers, respMonitors, pc, afs, ai, rmfs, mi,
                   chunks, ci, logged, history, registry, counters>>

\* The sink a pass-through method acts on: i.rw, whoever calls.
PassThroughSink(t) == rw

\* A pass-through call op by a callback of task t, with header h or status
\* code, leaves the sink i.rw as after.
PassThrough(t, op, h, code, after, budget) ==
    /\ MayCall(t, budget)
    /\ sink' = [sink EXCEPT ![PassThroughSink(t)] = after]
    /\ ptSinks' = [ptSinks EXCEPT ![t] = @ \cup {PassThroughSink(t)}]
    /\ mlog' = [mlog EXCEPT ![t] =
                    Append(@, [op |-> op, h |-> h, code |-> code])]
    /\ nCalls' = nCalls + 1
    /\ UNCHANGED <<fields, locals, logged, events, wlog, seen, deny, flushErr,
                   startBytes, overlapped, registry, nReq>>

\* i.rw.Header(), the caller then setting a value in the map it got
Header(t, name, value, budget) ==
    PassThrough(t, "Header", <<name, <<value>>>>, 0,
                SinkSet(sink[PassThroughSink(t)], name, <<value>>), budget)

\* i.rw.WriteHeader(statusCode)
WriteHeader(t, statusCode, budget) ==
    PassThrough(t, "WriteHeader", <<>>, statusCode,
                SinkWriteHeader(sink[PassThroughSink(t)], statusCode), budget)

\* http.SetCookie(i.rw, cookie)
SetCookie(t, name, value, budget) ==
    PassThrough(t, "SetCookie", <<"Set-Cookie", CookieString(name, value)>>, 0,
                SinkAdd(sink[PassThroughSink(t)], "Set-Cookie", CookieString(name, value)),
                budget)

\* i.rw.Header().Add(name, value)
AddHeader(t, name, value, budget) ==
    PassThrough(t, "AddHeader", <<name, <<value>>>>, 0,
                SinkAdd(sink[PassThroughSink(t)], name, <<value>>), budget)

\* -------------------------------------------------------------- HandleFunc
\* What an authorizer may return: (nil, 0, "") or (err, statusCode, msg).
AuthOutcomes ==
    {[err |-> Nil, code |-> 0, msg |-> <<>>]} \cup
    {[err |-> e, code |-> c, msg |-> m] : e \in Errs, c \in DenyCodes, m \in Msgs}

\* The outcomes of w.Write(chunk) in the flush loop: (len(chunk), nil), or an
\* error after the sink took n bytes of the chunk.
SinkWriteOutcomes(chunk) ==
    {[ok |-> TRUE, n |-> Len(chunk)]} \cup
    {[ok |-> FALSE, n |-> n] : n \in IF chunk = <<>> THEN {0} ELSE 0..(Len(chunk) - 1)}

\* (as DenialMessage, without the fallback to err.Error())
MessageOnly(err, msg) == msg

\* if msg == "" { msg = err.Error() }
DenialMessage(err, msg) == IF msg = <<>> THEN ErrorText(err) ELSE msg

\* (as AfterAuthorizer, the error branch not returning)
NoErrorReturn(err, k, n) == IF k < n THEN "auth" ELSE "handler"

\* Where control goes when authorizer k of n has returned err (k = 0: the
\* loop is being entered): the error return, the next authorizer, the handler.
AfterAuthorizer(err, k, n) ==
    IF err # Nil THEN "denied" ELSE IF k < n THEN "auth" ELSE "handler"

\* (as AfterMonitor, the loop left after its first turn)
FirstMonitorOnly(k, n) == IF k < 1 /\ k < n THEN "monitor" ELSE "flush"

\* Where control goes when monitor k of n has returned (k = 0: the handler has).
AfterMonitor(k, n) == IF k < n THEN "monitor" ELSE "flush"

\* (as AfterChunk, the call returning with chunks left to write)
LeaveFlush(ok, k, n) == "done"

\* (as AfterChunk, the loop going on after a failed write)
ContinueOnError(ok, k, n) == IF k < n THEN "flush" ELSE "done"

\* Where control goes when the sink write of chunk k of n has returned
\* (k = 0: the loop is being entered).
AfterChunk(ok, k, n) == IF ~ok THEN "done" ELSE IF k < n THEN "flush" ELSE "done"

Ev(kind, id) == [k |-> kind, id |-> id]

\* HandleFunc is entered by task t: i.rw = w, then the authorizer loop begins.
\* (Goroutines are numbered as they are taken: the lowest idle one serves.)
HandleFunc(t) ==
    /\ ~Ended
    /\ pc[t] = "idle"
    /\ \A u \in Tasks : u < t => pc[u] # "idle"
    /\ nReq < MaxRequests
    /\ nReq' = nReq + 1
    /\ rw' = t
    /\ sink' = [sink EXCEPT ![t] = NewSink]
    /\ LET next == AfterAuthorizer(Nil, 0, Len(authorizers)) IN
          /\ pc' = [pc EXCEPT ![t] = next]
          /\ ai' = [ai EXCEPT ![t] = IF next = "auth" THEN 1 ELSE 0]
          /\ events' = [events EXCEPT ![t] =
                 IF next = "auth" THEN <<Ev("auth", authorizers[1])>>
                                  ELSE <<Ev("handler", userHandler)>>]
    /\ afs' = [afs EXCEPT ![t] = authorizers]
    /\ startBytes' = [startBytes EXCEPT ![t] = respBytes]
    /\ overlapped' = [u \in Tasks |->
           IF u = t THEN \E v \in Tasks \ {t} : InFlight(v)
           ELSE overlapped[u] \/ InFlight(u)]
    /\ reg' = <<>>
    /\ UNCHANGED <<userHandler, authorizers, respMonitors, respBytes, rmfs, mi,
                   chunks, ci, pend, ret, logged, wlog, mlog, seen, ptSinks, deny,
                   flushErr, preReg, postReg, nCalls>>

\* The flush loop is entered: range *i.respBytes reads the slice once.
EnterFlush(t) ==
    LET next == AfterChunk(TRUE, 0, Len(respBytes)) IN
    /\ pc' = [pc EXCEPT ![t] = next]
    /\ chunks' = [chunks EXCEPT ![t] = respBytes]
    /\ ci' = [ci EXCEPT ![t] = IF next = "flush" THEN 1 ELSE 0]

\* A monitor is entered: rmf(i, r, i.respBytes).
EnterMonitor(t, list, k) ==
    /\ pc' = [pc EXCEPT ![t] = "monitor"]
    /\ rmfs' = [rmfs EXCEPT ![t] = list]
    /\ mi' = [mi EXCEPT ![t] = k]
    /\ events' = [events EXCEPT ![t] = Append(@, Ev("monitor", list[k]))]
    /\ seen' = [seen EXCEPT ![t] = Append(@, respBytes)]

\* The authorizer running for task t returns o.
AuthorizerReturn(t, o) ==
    /\ ~Ended
    /\ pc[t] = "auth"
    /\ pend[t] = <<>>
    /\ LET next == AfterAuthorizer(o.err, ai[t], Len(afs[t])) IN
          /\ pc' = [pc EXCEPT ![t] = next]
          /\ IF o.err # Nil
             THEN /\ logged' = [logged EXCEPT ![t] = "authorizer failed"]
                  /\ sink' = [sink EXCEPT ![t] =
                                 HttpError(@, DenialMessage(o.err, o.msg), o.code)]
                  /\ deny' = [deny EXCEPT ![t] =
                                 [err |-> o.err, code |-> o.code, msg |-> o.msg,
                                  at |-> ai[t], status |-> sink[t].status]]
             ELSE UNCHANGED <<logged, sink, deny>>
          /\ ai' = [ai EXCEPT ![t] = IF next = "auth" THEN @ + 1 ELSE @]
          /\ events' = [events EXCEPT ![t] =
                 LET evs == IF o.err # Nil THEN Append(@, Ev("error", "")) ELSE @ IN
                 CASE next = "auth" -> Append(evs, Ev("auth", afs[t][ai[t] + 1]))
                   [] next = "handler" -> Append(evs, Ev("handler", userHandler))
                   [] OTHER -> evs]
    /\ UNCHANGED <<fields, afs, rmfs, mi, chunks, ci, pend, ret, wlog, mlog, seen, ptSinks,
                   flushErr, startBytes, overlapped, registry, counters>>

\* The resource handler of task t returns: the monitor loop begins.
HandlerReturn(t) ==
    /\ ~Ended
    /\ pc[t] = "handler"
    /\ pend[t] = <<>>
    /\ IF AfterMonitor(0, Len(respMonitors)) = "monitor"
       THEN /\ EnterMonitor(t, respMonitors, 1)
            /\ UNCHANGED <<chunks, ci>>
       ELSE /\ EnterFlush(t)
            /\ rmfs' = [rmfs EXCEPT ![t] = respMonitors]
            /\ UNCHANGED <<mi, events, seen>>
    /\ UNCHANGED <<fields, sink, afs, ai, pend, ret, logged, wlog, mlog, ptSinks, deny,
                   flushErr, startBytes, overlapped, registry, counters>>

\* The monitor running for task t returns.
MonitorReturn(t) ==
    /\ ~Ended
    /\ pc[t] = "monitor"
    /\ pend[t] = <<>>
    /\ IF AfterMonitor(mi[t], Len(rmfs[t])) = "monitor"
       THEN /\ EnterMonitor(t, rmfs[t], mi[t] + 1)
            /\ UNCHANGED <<chunks, ci>>
       ELSE /\ EnterFlush(t)
            /\ UNCHANGED <<rmfs, mi, events, seen>>
    /\ UNCHANGED <<fields, sink, afs, ai, pend, ret, logged, wlog, mlog, ptSinks, deny,
                   flushErr, startBytes, overlapped, registry, counters>>

\* n, err := w.Write(chunk) for the chunk at position ci[t].
FlushChunk(t, o) ==
    /\ ~Ended
    /\ pc[t] = "flush"
    /\ LET chunk == chunks[t][ci[t]]
           next == AfterChunk(o.ok, ci[t], Len(chunks[t]))
       IN /\ o \in SinkWriteOutcomes(chunk)
          /\ sink' = [sink EXCEPT ![t] = SinkWrite(@, SubSeq(chunk, 1, o.n))]
          /\ events' = [events EXCEPT ![t] = Append(@, Ev("flush", ci[t]))]
          /\ pc' = [pc EXCEPT ![t] = next]
          /\ ci' = [ci EXCEPT ![t] = IF next = "flush" THEN @ + 1 ELSE @]
          /\ logged' = [logged EXCEPT ![t] = IF o.ok THEN @ ELSE "write failed"]
          /\ flushErr' = [flushErr EXCEPT ![t] = IF o.ok THEN @ ELSE ci[t]]
    /\ UNCHANGED <<fields, afs, ai, rmfs, mi, chunks, pend, ret, wlog, mlog, seen, ptSinks,
                   deny, startBytes, overlapped, registry, counters>>

\* The call of task t has ended (denied, or done) and returns: the response is
\* what the sink holds in this state; the goroutine and its locals are gone.
Return(t) ==
    /\ pc[t] \in {"denied", "done"}
    /\ pc' = [pc EXCEPT ![t] = "idle"]
    /\ sink' = [sink EXCEPT ![t] = NewSink]
    /\ afs' = [afs EXCEPT ![t] = <<>>]
    /\ ai' = [ai EXCEPT ![t] = 0]
    /\ rmfs' = [rmfs EXCEPT ![t] = <<>>]
    /\ mi' = [mi EXCEPT ![t] = 0]
    /\ chunks' = [chunks EXCEPT ![t] = <<>>]
    /\ ci' = [ci EXCEPT ![t] = 0]
    /\ logged' = [logged EXCEPT ![t] = ""]
    /\ events' = [events EXCEPT ![t] = <<>>]
    /\ wlog' = [wlog EXCEPT ![t] = <<>>]
    /\ mlog' = [mlog EXCEPT ![t] = <<>>]
    /\ seen' = [seen EXCEPT ![t] = <<>>]
    /\ ptSinks' = [ptSinks EXCEPT ![t] = {}]
    /\ deny' = [deny EXCEPT ![t] = NoDenial]
    /\ flushErr' = [flushErr EXCEPT ![t] = 0]
    /\ startBytes' = [startBytes EXCEPT ![t] = <<>>]
    /\ overlapped' = [overlapped EXCEPT ![t] = FALSE]
    /\ ret' = [ret EXCEPT ![t] = <<>>]
    /\ UNCHANGED <<fields, pend, registry, counters>>

\* ----------------------------------------------------------- specifications
FlushOutcomes == UNION {SinkWriteOutcomes(c) : c \in Chunks}

\* A callback of task t makes one of at most budget interface calls.
Call(t, budget) ==
    \/ WriteRead(t, ChunkArg(nCalls + 1), budget)
    \/ \E n \in HeaderNames, v \in HeaderValues : Header(t, n, v, budget)
    \/ \E c \in HandlerCodes : WriteHeader(t, c, budget)
    \/ \E n \in CookieNames, v \in HeaderValues : SetCookie(t, n, v, budget)
    \/ \E n \in AddHeaderNames, v \in HeaderValues : AddHeader(t, n, v, budget)

Serve(t) ==
    \/ WriteStore(t)
    \/ \E o \in AuthOutcomes : AuthorizerReturn(t, o)
    \/ HandlerReturn(t)
    \/ MonitorReturn(t)
    \/ \E o \in FlushOutcomes : FlushChunk(t, o)
    \/ Return(t)

Setup ==
    \/ \E af \in PreArgs : WithPre(af)
    \/ \E pr \in PostArgs : WithPost(pr)

\* Requests served by any number of goroutines at once.
Next ==
    \/ Setup
    \/ \E t \in Tasks : HandleFunc(t) \/ Serve(t) \/ Call(t, MaxRaceCalls)

Spec == Init /\ [][Next]_vars

\* Requests served one after another: a call begins when no call is in progress.
HandleFuncSeq(t) == Quiescent /\ HandleFunc(t)

NextSeq ==
    \/ Setup
    \/ \E t \in Tasks : HandleFuncSeq(t) \/ Serve(t) \/ Call(t, MaxCalls)

SeqSpec == Init /\ [][NextSeq]_vars

\* Requests served one after another by callbacks that call nothing but Write,
\* with any argument.
NextWrite ==
    \/ Setup
    \/ \E t \in Tasks :
          HandleFuncSeq(t) \/ Serve(t) \/ \E b \in WriteArgs : WriteRead(t, b, MaxWrites)

WriteSpec == Init /\ [][NextWrite]_vars

\* Requests served one after another, every goroutine serving one going on
\* running: its callbacks return, the Write calls they make return, the sink's
\* writes return.
NextFair ==
    \/ Setup
    \/ \E t \in Tasks :
          HandleFuncSeq(t) \/ Serve(t) \/ WriteRead(t, ChunkArg(nCalls + 1), MaxWrites)

FairSpec == Init /\ [][NextFair]_vars /\ \A t \in Tasks : WF_vars(Serve(t))

\* ------------------------------------------------------ the request's record
\* The authorizers and monitors task t's call has entered, in order of entry,
\* how often it entered the resource handler, the sink writes of its flush.
AuthLog(t) == IdsOf(events[t], "auth")
MonLog(t) == IdsOf(events[t], "monitor")
HandlerRuns(t) == Len(IdsOf(events[t], "handler"))
FlushLog(t) == IdsOf(events[t], "flush")

\* The chunks the resource handler passed to Write, in call order.
HandlerChunks(t) == SelectBy(wlog[t], "handler")

\* In task t's request, only the resource handler has called Write.
OnlyHandlerWrote(t) == Len(HandlerChunks(t)) = Len(wlog[t])

Denied(t) == deny[t].err # Nil

\* The stages of a request, in the order HandleFunc goes through them.
Rank(kind) ==
    CASE kind = "auth" -> 1
      [] kind = "handler" -> 2
      [] kind = "monitor" -> 3
      [] kind = "flush" -> 4
      [] kind = "error" -> 4

\* ------------------------------------------------------------------ claims
\* C1 (as claimed): a request that no authorizer denies runs the resource
\* handler exactly once and its sink receives exactly the chunks the handler
\* passed to Write, concatenated in call order.  Stated for the requests whose
\* flush met no write error and in which no authorizer or monitor wrote.
C1_BodyIsHandlerChunks ==
    \A t \in Tasks :
        pc[t] = "done" /\ flushErr[t] = 0 /\ OnlyHandlerWrote(t) =>
            /\ HandlerRuns(t) = 1
            /\ sink[t].body = Flatten(HandlerChunks(t))

\* C2 (as claimed): each HandleFunc call starts with an empty captured
\* sequence, so no chunk of an earlier request is seen or flushed by a later one.
C2_CaptureStartsEmpty ==
    \A t \in Tasks : InFlight(t) => startBytes[t] = <<>>

\* C3 (as claimed): with requests in flight at once, the body flushed to each
\* request's sink is exactly what that request's own handler wrote.  Stated
\* for the requests that began with an empty captured sequence, whose flush
\* met no write error and in which no authorizer or monitor wrote.
C3_BodyIsOwnChunks ==
    \A t \in Tasks :
        pc[t] = "done" /\ flushErr[t] = 0 /\ OnlyHandlerWrote(t)
            /\ startBytes[t] = <<>> =>
            sink[t].body = Flatten(HandlerChunks(t))

\* C4 (as claimed): every pass-through call made by the callbacks of a request
\* acts on the sink passed to that request's HandleFunc call.
C4_PassThroughOnOwnSink ==
    \A t \in Tasks : ptSinks[t] \subseteq {t}

\* C5: in a request that an authorizer denied, the resource handler and the
\* monitors are not invoked.
C5_DeniedRunsNothing ==
    \A t \in Tasks : Denied(t) => HandlerRuns(t) = 0 /\ MonLog(t) = <<>>

\* C5 witness: the first of two authorizers has denied, a monitor is registered.
C5_Witness ==
    \E t \in Tasks :
        Denied(t) /\ deny[t].at = 1 /\ Len(afs[t]) = 2 /\ respMonitors # <<>>

\* C6 (as claimed): the denied response has the authorizer's status code and a
\* body equal to its message, or to the error's text when the message is empty.
C6_DenialBodyIsMessage ==
    \A t \in Tasks :
        Denied(t) =>
            /\ sink[t].status = deny[t].code
            /\ sink[t].body =
                   IF deny[t].msg = <<>> THEN ErrorText(deny[t].err) ELSE deny[t].msg

\* C6 (amended): the denied response has the authorizer's status code unless a
\* status line had been written to the sink before the denial, which then
\* stands; its body is the message (the error's text when the message is empty)
\* followed by one newline; that is the whole body, and no captured chunk is
\* written to the sink.
C6_DenialResponse ==
    \A t \in Tasks :
        Denied(t) =>
            /\ sink[t].status =
                   IF deny[t].status = 0 THEN deny[t].code ELSE deny[t].status
            /\ sink[t].body =
                   (IF deny[t].msg = <<>> THEN ErrorText(deny[t].err) ELSE deny[t].msg)
                       \o <<NL>>
            /\ FlushLog(t) = <<>>

\* C6 witness: an authorizer wrote a chunk and then denied with an empty message.
C6_Witness ==
    \E t \in Tasks :
        Denied(t) /\ deny[t].msg = <<>> /\ wlog[t] # <<>> /\ respBytes # <<>>

\* C7: the authorizers a request enters are the registered ones, in the order
\* of registration, each once; a denial by the one at position k ends the
\* chain with exactly positions 1..k entered; a request that gets past the
\* chain has entered them all.
C7_AuthorizersInOrder ==
    \A t \in Tasks :
        /\ Len(AuthLog(t)) <= Len(preReg)
        /\ AuthLog(t) = SubSeq(preReg, 1, Len(AuthLog(t)))
        /\ Denied(t) => Len(AuthLog(t)) = deny[t].at
        /\ pc[t] \in {"handler", "monitor", "flush", "done"} => AuthLog(t) = preReg

\* C7 witness: of two authorizers the first has allowed and the second denied.
C7_Witness ==
    \E t \in Tasks : Denied(t) /\ deny[t].at = 2 /\ AuthLog(t) = <<"a1", "a2">>

\* C8: the monitors a request enters are the registered ones, in the order of
\* registration, each once, after the resource handler; whatever they do, all
\* of them have been entered when the flush begins, and the flush writes every
\* captured chunk unless a sink write fails.
C8_MonitorsAllOnce ==
    \A t \in Tasks :
        /\ Len(MonLog(t)) <= Len(postReg)
        /\ MonLog(t) = SubSeq(postReg, 1, Len(MonLog(t)))
        /\ MonLog(t) # <<>> => HandlerRuns(t) = 1
        /\ pc[t] \in {"flush", "done"} => MonLog(t) = postReg
        /\ pc[t] = "done" /\ flushErr[t] = 0 => Len(FlushLog(t)) = Len(chunks[t])

\* C8 witness: the first of two monitors made a call, the second ran, the
\* flush is done.
C8_Witness ==
    \E t \in Tasks :
        /\ pc[t] = "done"
        /\ MonLog(t) = <<"m1", "m2">>
        /\ Len(seen[t]) = 2 /\ seen[t][1] # seen[t][2]
        /\ FlushLog(t) # <<>>

C10_BodyDeferred ==
    \A t \in Tasks :
        /\ Running(t) => sink[t].body = <<>>
        /\ HandlerRuns(t) <= 1
        /\ \A j, k \in DOMAIN events[t] :
               j < k => Rank(events[t][j].k) <= Rank(events[t][k].k)

\* C10 witness: the handler has written two chunks, the last monitor is
\* running, the sink has no body yet.
C10_Witness ==
    \E t \in Tasks :
        /\ pc[t] = "monitor" /\ mi[t] = Len(rmfs[t])
        /\ Len(HandlerChunks(t)) = 2 /\ Len(respBytes) >= 2
        /\ sink[t].body = <<>>

\* C11 (as claimed): every Write that has returned returned (len(b), nil); the
\* step on which Write stores puts b, as exactly one chunk, at the end of the
\* captured sequence as it was; and a flush that met no write error has given
\* the sink the concatenation of the captured sequence, so that the output is
\* determined by the Write calls made.
C11_WriteReturnsLen ==
    /\ [](\A t \in Tasks :
            /\ ret[t] # <<>> =>
                   /\ wlog[t] # <<>>
                   /\ ret[t][1].n = Len(wlog[t][Len(wlog[t])].b)
                   /\ ret[t][1].err = Nil
            /\ pc[t] = "done" /\ flushErr[t] = 0 =>
                   sink[t].body = Flatten(chunks[t]))
    /\ [][\A t \in Tasks :
             pend[t] # <<>> /\ pend'[t] = <<>> =>
                 /\ respBytes' = respBytes \o <<pend[t][1].b>>
                 /\ Len(respBytes') = Len(respBytes) + 1]_vars

\* The header and cookie operations named by the claims C12 and C20.
AddsOnly(t) == \A k \in DOMAIN mlog[t] : mlog[t][k].op \in {"SetCookie", "AddHeader"}

\* Header h is among the headers hs.
HasHeader(hs, h) == \E j \in DOMAIN hs : hs[j] = h

\* C12 (as claimed): whatever the order in which the handler's SetCookie and
\* AddHeader calls and its Write calls are made, the client gets status 200,
\* every header and cookie that was set, and a body equal to the concatenation
\* of the handler's writes.  Stated for the requests in which such a call was
\* made, whose flush met no write error, in which no authorizer or monitor
\* wrote and no callback made another pass-through call.
C12_InterleavingSameResponse ==
    \A t \in Tasks :
        pc[t] = "done" /\ flushErr[t] = 0 /\ OnlyHandlerWrote(t)
            /\ mlog[t] # <<>> /\ AddsOnly(t) =>
            /\ ResponseStatus(sink[t]) = 200
            /\ \A k \in DOMAIN mlog[t] : HasHeader(ResponseHeaders(sink[t]), mlog[t][k].h)
            /\ sink[t].body = Flatten(HandlerChunks(t))

\* C13: the flush makes one sink write per chunk of the slice it ranges over,
\* in order and without gaps; a failed write of chunk j is logged and is the
\* last sink write of the request, which then ends, the sink holding the
\* chunks before j and the part of chunk j it accepted; a flush without a
\* failure logs nothing and has written every chunk.
C13_FlushStopsOnError ==
    \A t \in Tasks :
        /\ \A k \in DOMAIN FlushLog(t) : FlushLog(t)[k] = k
        /\ Len(FlushLog(t)) <= Len(chunks[t])
        /\ pc[t] = "flush" => flushErr[t] = 0 /\ Len(FlushLog(t)) = ci[t] - 1
        /\ flushErr[t] # 0 =>
               /\ pc[t] = "done"
               /\ logged[t] = "write failed"
               /\ Len(FlushLog(t)) = flushErr[t]
               /\ \E n \in 0..Len(chunks[t][flushErr[t]]) :
                      sink[t].body =
                          Flatten(SubSeq(chunks[t], 1, flushErr[t] - 1))
                              \o SubSeq(chunks[t][flushErr[t]], 1, n)
        /\ pc[t] = "done" /\ flushErr[t] = 0 =>
               /\ logged[t] = ""
               /\ Len(FlushLog(t)) = Len(chunks[t])
               /\ sink[t].body = Flatten(chunks[t])

\* C13 witness: of two captured chunks the first was written, the write of the
\* second failed after one of its two bytes.
C13_Witness ==
    \E t \in Tasks :
        /\ flushErr[t] = 2 /\ Len(chunks[t]) = 2
        /\ sink[t].body = <<"a", "b">>

\* The terminal states of a HandleFunc call.
Terminal(t) == pc[t] \in {"denied", "done"}

\* C14: every request that has begun ends, denied or done.  It ends denied
\* exactly when an authorizer denied, and then on that authorizer's return,
\* without the handler or a sink write of the flush; it ends done with the
\* handler run once, every monitor entered, and the flush finished or stopped
\* by a failed write.  The next step after it has ended is the call's return:
\* no callback is entered and no sink write made.  The chains are then what
\* was registered, for the next request.
C14_EndsDeniedOrDone ==
    /\ \A t \in Tasks : InFlight(t) ~> Terminal(t)
    /\ [](\A t \in Tasks :
            /\ Denied(t) <=> pc[t] = "denied"
            /\ pc[t] = "denied" => HandlerRuns(t) = 0 /\ FlushLog(t) = <<>>
            /\ pc[t] = "done" =>
                   /\ HandlerRuns(t) = 1 /\ MonLog(t) = postReg
                   /\ flushErr[t] # 0 \/ Len(FlushLog(t)) = Len(chunks[t])
            /\ Terminal(t) => authorizers = preReg /\ respMonitors = postReg)
    /\ [][\A t \in Tasks :
             Terminal(t) =>
                 /\ pc'[t] = "idle" /\ events'[t] = <<>>
                 /\ authorizers' = authorizers /\ respMonitors' = respMonitors]_vars

\* C14 witness: a first request has ended and returned; the second went past
\* the first authorizer and was denied by the second.
C14_Witness ==
    \E t \in Tasks : nReq = 2 /\ pc[t] = "denied" /\ deny[t].at = 2

\* C15: a step of a Write call leaves every sink, i.rw and the chains as they
\* are, and changes the captured sequence only when it stores, the argument
\* then being its last chunk.  A pass-through call is made while a callback
\* runs, before the flush, leaves the captured sequence and the body of every
\* sink as they are and changes the sink i.rw in the same step: AddHeader and
\* SetCookie put their header after those the sink has, all of which stay;
\* Header puts its value in the map; WriteHeader writes the status line if
\* none has been written.
C15_WriteBufferedRestPassedOn ==
    [][\A t \in Tasks :
         /\ pend'[t] # pend[t] =>
                /\ sink' = sink /\ rw' = rw
                /\ authorizers' = authorizers /\ respMonitors' = respMonitors
                /\ pend'[t] # <<>> => respBytes' = respBytes
                /\ pend'[t] = <<>> =>
                       /\ respBytes' # <<>>
                       /\ respBytes'[Len(respBytes')] = pend[t][1].b
         /\ Len(mlog'[t]) = Len(mlog[t]) + 1 =>
                LET e == mlog'[t][Len(mlog'[t])]
                    s == sink[rw]
                    s2 == sink'[rw]
                IN /\ Running(t)
                   /\ respBytes' = respBytes /\ rw' = rw
                   /\ \A u \in Tasks : sink'[u].body = sink[u].body
                   /\ \A u \in Tasks \ {rw} : sink'[u] = sink[u]
                   /\ e.op \in {"AddHeader", "SetCookie"} =>
                          s2.hdr = s.hdr \o <<e.h>> /\ s2.status = s.status
                   /\ e.op = "Header" =>
                          HasHeader(s2.hdr, e.h) /\ s2.status = s.status
                   /\ e.op = "WriteHeader" =>
                          /\ s2.hdr = s.hdr
                          /\ s2.status = IF s.status = 0 THEN e.code ELSE s.status]_vars

\* C15 witness: the handler has added a second value to a header that had
\* one; the sink has both and no body yet.
C15_Witness ==
    \E t \in Tasks :
        /\ pc[t] = "handler" /\ Len(mlog[t]) = 2 /\ mlog[t][2].op = "AddHeader"
        /\ Len(sink[t].hdr) = 2 /\ sink[t].hdr[1][1] = sink[t].hdr[2][1]
        /\ sink[t].body = <<>>

\* C16: a WithPre or WithPost call returns the object it was called on; with
\* a non-nil argument it puts the argument at the end of its chain, with nil
\* it changes nothing; it leaves the other chain, the resource handler, the
\* captured sequence and the sinks as they are.  No chain ever holds nil, and
\* each chain is the non-nil arguments of New and of its registration calls in
\* the order of the calls.
C16_RegistrationAppends ==
    /\ [](/\ \A k \in DOMAIN authorizers : authorizers[k] # Nil
          /\ \A k \in DOMAIN respMonitors : respMonitors[k] # Nil
          /\ authorizers = preReg /\ respMonitors = postReg)
    /\ [][reg' # <<>> =>
             LET c == reg'[1] IN
             /\ c.res = Self
             /\ userHandler' = userHandler /\ respBytes' = respBytes
             /\ rw' = rw /\ sink' = sink
             /\ c.op = "WithPre" =>
                    /\ respMonitors' = respMonitors
                    /\ authorizers' =
                           IF c.arg = Nil THEN authorizers ELSE authorizers \o <<c.arg>>
             /\ c.op = "WithPost" =>
                    /\ authorizers' = authorizers
                    /\ respMonitors' =
                           IF c.arg = Nil THEN respMonitors ELSE respMonitors \o <<c.arg>>]_vars

\* C16 witness: New was given an authorizer and no monitor; WithPre has added
\* a second authorizer, WithPost a monitor, and a WithPost(nil) call has
\* returned without adding one.
C16_Witness ==
    /\ authorizers = <<"a1", "a2">> /\ respMonitors = <<"m2">>
    /\ reg = <<[op |-> "WithPost", arg |-> Nil, res |-> Self]>>

\* Sequence a is the beginning of sequence b.
IsPrefix(a, b) == Len(a) <= Len(b) /\ SubSeq(b, 1, Len(a)) = a

\* C17: on every step each chain is a prefix of what it becomes, hence at any
\* point a prefix of itself at any later point, and the resource handler stays
\* the same; a step of a HandleFunc call, from its entry to its return,
\* allowed, denied or stopped by a failed write, leaves both chains as they
\* are, so that they are what the call found on entry.
C17_ChainsOnlyGrow ==
    /\ [][
            /\ IsPrefix(authorizers, authorizers')
            /\ IsPrefix(respMonitors, respMonitors')
            /\ userHandler' = userHandler
            /\ (\E t \in Tasks : pc[t] # "idle" \/ pc'[t] # "idle") =>
                   (authorizers' = authorizers /\ respMonitors' = respMonitors)
         ]_vars
    /\ [](\A t \in Tasks :
            /\ InFlight(t) \/ Terminal(t) => afs[t] = authorizers
            /\ pc[t] \in {"monitor", "flush", "done"} => rmfs[t] = respMonitors)

\* C17 witness: both chains have grown to two elements, a first request has
\* returned and the flush of the second has been stopped by a failed write.
C17_Witness ==
    \E t \in Tasks :
        /\ nReq = 2 /\ pc[t] = "done" /\ flushErr[t] # 0
        /\ authorizers = <<"a1", "a2">> /\ respMonitors = <<"m1", "m2">>

\* C18: while no authorizer is registered (New was given nil and WithPre no
\* authorizer), a request is never in the authorizer loop and never denied:
\* it is in the resource handler as soon as it begins, nothing is logged for
\* an authorizer, no error response is written to its sink, and when it is
\* done every monitor has been entered and the flush has written every chunk
\* or been stopped by a failed write.
C18_EmptyChainAllows ==
    \A t \in Tasks :
        preReg = <<>> /\ (InFlight(t) \/ Terminal(t)) =>
            /\ pc[t] \notin {"auth", "denied"}
            /\ ~Denied(t) /\ AuthLog(t) = <<>>
            /\ HandlerRuns(t) = 1
            /\ logged[t] # "authorizer failed"
            /\ IdsOf(events[t], "error") = <<>>
            /\ sink[t].status \notin DenyCodes
            /\ ~HasHeader(sink[t].hdr, <<"X-Content-Type-Options", <<"nosniff">>>>)
            /\ pc[t] = "done" =>
                   /\ MonLog(t) = postReg
                   /\ flushErr[t] # 0 \/ Len(FlushLog(t)) = Len(chunks[t])

\* C18 witness: no authorizer is registered; a request has run the handler and
\* a monitor and flushed a body.
C18_Witness ==
    \E t \in Tasks :
        /\ preReg = <<>> /\ authorizers = <<>>
        /\ pc[t] = "done" /\ Len(MonLog(t)) = 1 /\ sink[t].body # <<>>

\* The chunks the callbacks of task t's request passed to Write, in call order.
WrittenChunks(t) == [k \in DOMAIN wlog[t] |-> wlog[t][k].b]

\* C19 (as claimed): on a request that is not denied, the body flushed to the
\* sink is the chunks its authorizers, its handler and its monitors passed to
\* Write, in call order; what a monitor finds behind respBytes begins with what
\* the monitor before it found.  Stated for the requests in which an
\* authorizer or a monitor wrote and whose flush met no write error.
C19_AllCallersBuffered ==
    \A t \in Tasks :
        /\ pc[t] = "done" /\ flushErr[t] = 0 /\ ~OnlyHandlerWrote(t) =>
               sink[t].body = Flatten(WrittenChunks(t))
        /\ \A k \in DOMAIN seen[t] : k > 1 => IsPrefix(seen[t][k - 1], seen[t][k])

\* The pass-through calls of task t's request that put a header or a cookie
\* on the sink, by their positions in the log of its pass-through calls.
MetadataCalls(t) ==
    {k \in DOMAIN mlog[t] : mlog[t][k].op \in {"Header", "AddHeader", "SetCookie"}}

\* TRUE iff a call after the k-th of the log replaced the values of its name
\* through the map Header() returns.
ReplacedLater(t, k) ==
    \E j \in DOMAIN mlog[t] :
        j > k /\ mlog[t][j].op = "Header" /\ mlog[t][j].h[1] = mlog[t][k].h[1]

\* TRUE iff a call before the k-th of the log wrote the status line.
StatusWrittenBefore(t, k) ==
    \E j \in DOMAIN mlog[t] : j < k /\ mlog[t][j].op = "WriteHeader"

\* C20 (as claimed): a denial does not roll back metadata: every header or
\* cookie the authorizers set through the pass-through operations before the
\* denial is still on the sink when the error response is emitted, and the
\* denied response carries it.
C20_DenialKeepsMetadata ==
    \A t \in Tasks :
        Denied(t) =>
            \A k \in MetadataCalls(t) :
                /\ HasHeader(sink[t].hdr, mlog[t][k].h)
                /\ HasHeader(ResponseHeaders(sink[t]), mlog[t][k].h)

\* TRUE of a denial and a header or cookie that the authorizers added before
\* it under a name other than those http.Error sets itself, and that was not
\* replaced since through Header(): it is still on the sink's header map, and
\* the denied response carries it when it was added before any status line was
\* written.
DeniedKeepsAdded(t) ==
    \A k \in MetadataCalls(t) :
        mlog[t][k].h[1] \notin ErrorHeaderNames /\ ~ReplacedLater(t, k) =>
            /\ HasHeader(sink[t].hdr, mlog[t][k].h)
            /\ ~StatusWrittenBefore(t, k) =>
                   HasHeader(ResponseHeaders(sink[t]), mlog[t][k].h)

\* C20 (amended): when an authorizer denies, a header or cookie the authorizers
\* added before, under a name other than those http.Error sets itself and not
\* replaced since through Header(), is still on the sink's header map and the
\* denied response carries it when it was added before any status line was
\* written; a value under Content-Type is replaced by the plain-text one.  The
\* step of the denial itself takes from the header map of its sink only what
\* is under the names http.Error sets, and leaves the headers already sent as
\* they were.
C20_DenialKeepsAdded ==
    /\ [](\A t \in Tasks :
              Denied(t) =>
                  /\ DeniedKeepsAdded(t)
                  /\ \A j \in DOMAIN sink[t].hdr :
                         sink[t].hdr[j][1] = "Content-Type" =>
                             sink[t].hdr[j][2] = <<"text/plain; charset=utf-8">>)
    /\ [][
          \A t \in Tasks :
              (~Denied(t) /\ Denied(t)') =>
                  (\A j \in DOMAIN sink[t].hdr :
                      sink[t].hdr[j][1] \notin ErrorHeaderNames =>
                          /\ HasHeader(sink'[t].hdr, sink[t].hdr[j])
                          /\ HasHeader(ResponseHeaders(sink'[t]), sink[t].hdr[j])
                                 \/ (sink[t].status # 0 /\ sink'[t].sent = sink[t].sent))
       ]_vars

C20_Witness ==
    \E t \in Tasks :
        /\ Denied(t) /\ sink[t].status \in DenyCodes
        /\ \E k \in MetadataCalls(t) : mlog[t][k].op = "SetCookie"
        /\ \E k \in MetadataCalls(t) :
               /\ mlog[t][k].op = "AddHeader"
               /\ mlog[t][k].h[1] \notin ErrorHeaderNames
               /\ HasHeader(ResponseHeaders(sink[t]), mlog[t][k].h)

====
